---- MODULE Spec2Model ----
(***************************************************************************)
(* A model of WebexTeamsArchiver.archive_room                              *)
(* (src/webexteamsarchiver/webexteamsarchiver.py): one run of the archive  *)
(* pipeline against a remote room, the local filesystem and the download   *)
(* worker pool.                                                            *)
(*                                                                         *)
(* Time is counted in milliseconds.  A path inside the archive folder is   *)
(* a pair <<subfolder, name>>; <<"attachments", "">> is the path           *)
(* os.path.join(cwd, folder, "attachments", ""), i.e. the directory.       *)
(* A Python dict is a sequence of <<key, value>> pairs in insertion order. *)
(* shutil.rmtree of the run's own folder is taken to succeed.              *)
(***************************************************************************)
EXTENDS Integers, Sequences, FiniteSets, TLC

\* ---------------------------------------------------------------- bounds
MaxMsgs == 2
MaxWorkers == 2
MaxTearDowns == 2       \* calls of _tear_down_folder made after archive_room

\* ------------------------------------------------------ program constants
ContinuationGap == 60
SecondsPerDay == 86400
MsPerSecond == 1000

\* --------------------------------------------------------------- domains
Emails == {"a@x.com", "b@x.com"}
Urls == {"u1", "u2", "u3"}
None == "None"
NoExc == "none"
\* Attributes and locals that hold no object yet: self.room_creator before
\* _gather_room_information has run, the datetime of the previous message
\* (a datetime t is <<t>>), and archive_room's return value.
NoCreator == [id |-> None, emails |-> <<>>, displayName |-> None, avatar |-> None]
NoDatetime == <<>>
NoResult == <<>>

RoomTitle == "Team Sync"
RoomId == "abc123"

\* ------------------------------------------------------------ Python dict
DictKeys(d) == {d[i][1] : i \in 1..Len(d)}
DictHas(d, k) == \E i \in 1..Len(d) : d[i][1] = k
DictGet(d, k) == d[CHOOSE i \in 1..Len(d) : d[i][1] = k][2]
DictSet(d, k, v) ==
    IF DictHas(d, k)
    THEN [i \in 1..Len(d) |-> IF d[i][1] = k THEN <<k, v>> ELSE d[i]]
    ELSE Append(d, <<k, v>>)

\* ------------------------------------------------------------- records
\* File = namedtuple("File", "content_disposition content_length content_type filename deleted")
File(cd, len, type, name, del) ==
    [content_disposition |-> cd, content_length |-> len, content_type |-> type,
     filename |-> name, deleted |-> del]

\* UserNotFound = namedtuple("UserNotFound", "id emails displayName avatar")
UserNotFound(id, emails) ==
    [id |-> id, emails |-> emails, displayName |-> "Person Not Found", avatar |-> None]

\* A person record as the identity service returns it.
Person(id, email, avatar) ==
    [id |-> id, emails |-> <<email>>, displayName |-> id, avatar |-> avatar]

\* jinja_env.sanitize_name on the names this model uses.
sanitize_name(s) ==
    CASE s = "Team Sync" -> "Team_Sync"
      [] s = "a@x.com" -> "a_x_com"
      [] s = "b@x.com" -> "b_x_com"
      [] OTHER -> s

\* The remote side: ids, avatar links, file names and bodies.
PersonIdOf(email) == IF email = "a@x.com" THEN "id_a" ELSE "id_b"
AvatarOf(email) == IF email = "a@x.com" THEN "av_a" ELSE "av_b"
\* Two uploads may carry one name: u3 is another upload of a file named f1.bin.
RemoteFilename(url) == IF url = "u2" THEN "f2.bin" ELSE "f1.bin"
BodyOf(url) ==
    CASE url = "u1" -> "body1"
      [] url = "u2" -> "body2"
      [] url = "u3" -> "body3"
      [] url = "av_a" -> "image_a"
      [] OTHER -> "image_b"

\* ----------------------------------------------------------------- state
VARIABLES
    opts,                   \* archive_room's arguments and **options
    pc,                     \* position of the orchestrating thread
    archive_folder_name,    \* self.archive_folder_name
    room_creator,           \* self.room_creator
    messages,               \* self.messages
    index,                  \* loop index of _archive
    people, attachments, avatars,           \* the three dicts of _archive
    processed_messages, repeat_indeces,
    previous_person_email, previous_msg_datetime,
    folderExists, folderDirs, folderFiles,  \* the archive folder on disk
    tgz,                    \* <archive_folder_name>.tgz on disk
    pool,                   \* the ThreadPoolExecutor of _download_files
    exc,                    \* the exception in flight / that left archive_room
    result,                 \* archive_room's return value
    lookups, probes,        \* calls made to sdk.people.get (per sender) and file_details
    tearDowns,              \* calls made to _tear_down_folder
    raisedIn,               \* the step that raised
    envFault,               \* a collaborator failed other than by a recovered not-found
    badDownloads,           \* URLs whose GET failed or answered a non-success status
    deletedUrls             \* URLs for which file_details returned deleted = True

vars == <<opts, pc, archive_folder_name, room_creator, messages, index, people,
          attachments, avatars, processed_messages, repeat_indeces,
          previous_person_email, previous_msg_datetime, folderExists, folderDirs,
          folderFiles, tgz, pool, exc, result, lookups, probes, tearDowns,
          raisedIn, envFault, badDownloads, deletedUrls>>

runVars == <<archive_folder_name, room_creator, messages>>
localVars == <<index, people, attachments, avatars, processed_messages, repeat_indeces,
               previous_person_email, previous_msg_datetime>>
callVars == <<lookups, probes>>
passVars == <<localVars, callVars>>
diskVars == <<folderExists, folderDirs, folderFiles>>
ghostVars == <<badDownloads, deletedUrls>>

\* _archive's frame is left, by return or by an exception: its locals are gone,
\* and so is the executor of _download_files.
NoPool == [folder_name |-> "", tasks |-> <<>>]

FrameLeft ==
    /\ index' = 0
    /\ people' = <<>> /\ attachments' = <<>> /\ avatars' = <<>>
    /\ processed_messages' = <<>> /\ repeat_indeces' = <<>>
    /\ previous_person_email' = "" /\ previous_msg_datetime' = NoDatetime
    /\ pool' = NoPool

\* --------------------------------------------------------------- options
\* archive_room's signature and options.get defaults.
AllOptions ==
    [overwrite_folder : BOOLEAN, delete_folder : BOOLEAN, reverse_order : {TRUE},
     download_attachments : BOOLEAN, download_avatars : BOOLEAN,
     download_workers : {MaxWorkers},
     text_format : {TRUE}, html_format : BOOLEAN, json_format : {TRUE}]

DefaultOptions ==
    [overwrite_folder : {TRUE}, delete_folder : {FALSE}, reverse_order : BOOLEAN,
     download_attachments : {TRUE}, download_avatars : {TRUE},
     download_workers : {MaxWorkers},
     text_format : {TRUE}, html_format : {TRUE}, json_format : {TRUE}]

OldFiles == {<<<<"", "old.txt">>, "old">>}
\* The state before archive_room is called: the options drawn from options, and
\* a working directory in which a folder of the archive's name may be left over
\* and in which the bundle is one of bundles.
InitWith(options, bundles) ==
    /\ opts \in options
    /\ pc = "start"
    /\ archive_folder_name = <<>>
    /\ room_creator = NoCreator
    /\ messages = <<>>
    /\ index = 0
    /\ people = <<>> /\ attachments = <<>> /\ avatars = <<>>
    /\ processed_messages = <<>> /\ repeat_indeces = <<>>
    /\ previous_person_email = "" /\ previous_msg_datetime = NoDatetime
    /\ folderExists \in BOOLEAN
    /\ folderDirs = {}
    /\ folderFiles = IF folderExists THEN OldFiles ELSE {}
    /\ tgz \in bundles
    /\ pool = NoPool
    /\ exc = NoExc
    /\ result = NoResult
    /\ lookups = [e \in Emails |-> 0]
    /\ probes = [u \in Urls |-> 0]
    /\ tearDowns = 0
    /\ raisedIn = None
    /\ envFault = FALSE
    /\ badDownloads = {}
    /\ deletedUrls = {}

Init == InitWith(AllOptions, {"absent"})

\* ------------------------------------------------------------ exceptions
\* An exception raised inside archive_room's try block (lines 153-156) reaches
\* the except clause of line 157.
Raise(e, step, fault) ==
    /\ pc' = "except"
    /\ FrameLeft
    /\ exc' = e
    /\ raisedIn' = step
    /\ envFault' = (envFault \/ fault)

\* Lines 149-152 moved inside the try block: their exceptions reach the except
\* clause too.
EscapeThroughHandler(e, step, fault) ==
    /\ pc' = "except"
    /\ exc' = e
    /\ raisedIn' = step
    /\ envFault' = (envFault \/ fault)

\* An exception raised outside the try block (lines 149-152): it leaves archive_room.
Escape(e, step, fault) ==
    /\ pc' = "raised"
    /\ exc' = e
    /\ raisedIn' = step
    /\ envFault' = (envFault \/ fault)

\* ------------------------------------------------- _gather_room_information
Message(email, created, files) ==
    [personEmail |-> email, personId |-> PersonIdOf(email), created |-> created,
     files |-> files]

SeqsUpTo(S, n) == UNION {[1..k -> S] : k \in 0..n}

RoomCreatorId == "id_a"

\* One call of _gather_room_information.  outcome names the first remote call that
\* fails, if any; creator is the identity service's answer for the room creator;
\* me is the type of the caller's identity.
GatherFrom(histories) ==
    /\ pc = "start"
    /\ UNCHANGED <<opts, passVars, diskVars, tgz, pool, result, tearDowns, ghostVars>>
    /\ \E outcome \in {"ok", "room", "creator", "me", "list"} :
         \/ /\ outcome = "room"                      \* sdk.rooms.get raises
            /\ UNCHANGED runVars
            /\ Escape("ApiError", "gather", TRUE)
         \/ /\ outcome = "creator"                   \* sdk.people.get: not a 404
            /\ archive_folder_name' = <<sanitize_name(RoomTitle), RoomId>>
            /\ UNCHANGED <<room_creator, messages>>
            /\ Escape("ApiError", "gather", TRUE)
         \/ /\ outcome \in {"ok", "me", "list"}
            /\ archive_folder_name' = <<sanitize_name(RoomTitle), RoomId>>
            /\ \E creator \in {"found", "404"} :
                 room_creator' =
                     IF creator = "404"
                     THEN UserNotFound(RoomCreatorId, <<"unknown">>)
                     ELSE Person(RoomCreatorId, "a@x.com", None)
            /\ IF outcome = "ok"
               THEN /\ \E me \in {"person", "bot"} :
                         \* a bot lists the messages that mention it: some history too
                         \E h \in histories : messages' = h
                    /\ pc' = "setup"
                    /\ UNCHANGED <<exc, raisedIn, envFault>>
               ELSE /\ UNCHANGED messages
                    /\ Escape("ApiError", "gather", TRUE)

\* ------------------------------------------------------------ the folder
WriteFile(files, path, content) ==
    {f \in files : f[1] # path} \cup {<<path, content>>}

StaticDirs == {".css", ".js", ".fonts"}

\* Lines 257-273 when the folder is absent or is overwritten: rmtree, then the
\* makedirs and copytree calls.  fail names the filesystem call that fails, if any.
MakeFolders ==
    \E fail \in {"none", "makedirs", "attachments", "avatars", "static"} :
       /\ fail = "attachments" => opts.download_attachments
       /\ fail = "avatars" => opts.download_avatars
       /\ fail = "static" => opts.html_format
       /\ folderExists' = (fail # "makedirs")
       /\ folderFiles' = {}
       /\ folderDirs' =
            IF fail \in {"makedirs", "attachments"} THEN {}
            ELSE (IF opts.download_attachments THEN {"attachments"} ELSE {})
                 \cup (IF opts.download_avatars /\ fail # "avatars"
                       THEN {"avatars"} ELSE {})
                 \cup (IF opts.html_format /\ fail = "none"
                       THEN StaticDirs ELSE {})
       /\ IF fail = "none"
          THEN /\ pc' = "loop"
               /\ UNCHANGED <<exc, raisedIn, envFault>>
          ELSE Escape("OSError", "setup", TRUE)

\* _setup_folder called inside archive_room's try block: its FileExistsError
\* reaches the except clause.
SetupFolderInsideTry ==
    /\ pc = "setup"
    /\ UNCHANGED <<opts, runVars, callVars, tgz, result, tearDowns, ghostVars>>
    /\ IF folderExists /\ ~opts.overwrite_folder
       THEN /\ UNCHANGED diskVars
            /\ Raise("FileExistsError", "setup", FALSE)
       ELSE /\ UNCHANGED <<localVars, pool>>
            /\ MakeFolders

\* One call of _setup_folder.  It runs outside archive_room's try block.
SetupFolder ==
    /\ pc = "setup"
    /\ UNCHANGED <<opts, runVars, passVars, tgz, pool, result, tearDowns, ghostVars>>
    /\ IF folderExists /\ ~opts.overwrite_folder
       THEN \* os.makedirs on an existing folder: FileExistsError
            /\ UNCHANGED diskVars
            /\ Escape("FileExistsError", "setup", FALSE)
       ELSE MakeFolders

\* _tear_down_folder with its isdir test inverted: an existing folder is kept.
TearDownFolderInverted ==
    /\ UNCHANGED diskVars
    /\ tearDowns' = tearDowns + 1

\* One call of _tear_down_folder: rmtree when the folder is there.
TearDownFolder ==
    /\ folderExists' = FALSE
    /\ folderDirs' = (IF folderExists THEN {} ELSE folderDirs)
    /\ folderFiles' = (IF folderExists THEN {} ELSE folderFiles)
    /\ tearDowns' = tearDowns + 1

\* ------------------------------------------------------------ file_details
\* The answers of the attachments endpoint to requests.head(url).
ContentDisposition(url) == "attachment; filename=" \o RemoteFilename(url)

HeadResponses(url) ==
    {[status |-> 200, content_disposition |-> ContentDisposition(url)],
     [status |-> 200, content_disposition |-> "inline"],
     [status |-> 404, content_disposition |-> ""],
     [status |-> 500, content_disposition |-> ""]}

\* re.search(r"filename=\"(.+?)\"", content_disposition, re.I): group(1), or None
FilenameSearch(cd) ==
    CASE cd = "attachment; filename=f1.bin" -> "f1.bin"
      [] cd = "attachment; filename=f2.bin" -> "f2.bin"
      [] OTHER -> None

\* file_details(url) when requests.head answers r: the File returned or the
\* exception raised.
file_details(url, r) ==
    IF r.status = 404
    THEN [exc |-> NoExc, file |-> File("", 0, "", "", TRUE)]
    ELSE IF r.status # 200
    THEN [exc |-> "HTTPError", file |-> None]                \* r.raise_for_status()
    ELSE IF FilenameSearch(r.content_disposition) = None
    THEN [exc |-> "MalformedResponse", file |-> None]
    ELSE [exc |-> NoExc,
          file |-> File(r.content_disposition, 1024, "application/octet-stream",
                        FilenameSearch(r.content_disposition), FALSE)]

\* --------------------------------------------------- _archive: the pass
\* datetime.timedelta(milliseconds=d).seconds: the seconds field of the normalised
\* (days, seconds, microseconds) triple, always in 0..86399.
TimedeltaSeconds(d) == (d % (SecondsPerDay * MsPerSecond)) \div MsPerSecond

\* The test of lines 192-193.
IsRepeat(i, msg, prevEmail, prevDatetime) ==
    /\ i > 0
    /\ msg.personEmail = prevEmail
    /\ TimedeltaSeconds(prevDatetime[1] - msg.created) < ContinuationGap

\* Lines 217-220 for one message: file_details for every url of msg.files in order,
\* answered by rs[i], until one raises.
RECURSIVE ProbeFiles(_, _, _, _, _)
ProbeFiles(files, rs, i, atts, prb) ==
    IF i > Len(files)
    THEN [exc |-> NoExc, attachments |-> atts, probes |-> prb]
    ELSE LET url == files[i]
             d == file_details(url, rs[i])
             prb2 == [prb EXCEPT ![url] = @ + 1]
         IN IF d.exc # NoExc
            THEN [exc |-> d.exc, attachments |-> atts, probes |-> prb2]
            ELSE ProbeFiles(files, rs, i + 1, DictSet(atts, url, d.file), prb2)

\* The answer sequences for msg.files; after an answer that makes file_details
\* raise no further request is made.
HeadAnswers(files) ==
    {rs \in [1..Len(files) -> UNION {HeadResponses(u) : u \in Urls}] :
        /\ \A i \in 1..Len(files) : rs[i] \in HeadResponses(files[i])
        /\ \A i, j \in 1..Len(files) :
             (i < j /\ file_details(files[i], rs[i]).exc # NoExc)
                 => rs[j] = [status |-> 404, content_disposition |-> ""]}

\* Lines 199-215: the identity lookup for msg, answered by answer.
PersonAnswers == {"avatar", "no avatar", "404", "error"}

LookedUp(msg, answer) ==
    IF answer = "404"
    THEN UserNotFound(msg.personId, <<msg.personEmail>>)
    ELSE Person(msg.personId, msg.personEmail,
                IF answer = "avatar" THEN AvatarOf(msg.personEmail) ELSE None)

\* Lines 200-215 without the test of line 199: a lookup for every message.
ResolveEveryMessage(ppl, avs, msg, answer, download_avatars) ==
    IF answer = "error"
    THEN [exc |-> "ApiError", people |-> ppl, avatars |-> avs, called |-> TRUE]
    ELSE LET person == LookedUp(msg, answer) IN
         [exc |-> NoExc,
          people |-> DictSet(ppl, msg.personEmail, person),
          avatars |-> IF download_avatars /\ person.avatar # None
                      THEN DictSet(avs, person.avatar,
                                   File("", "", "", sanitize_name(msg.personEmail), FALSE))
                      ELSE avs,
          called |-> TRUE]

\* Lines 199-215 for msg: the people and avatars dicts after them, or the exception.
Resolve(ppl, avs, msg, answer, download_avatars) ==
    IF DictHas(ppl, msg.personEmail)
    THEN [exc |-> NoExc, people |-> ppl, avatars |-> avs, called |-> FALSE]
    ELSE IF answer = "error"
    THEN [exc |-> "ApiError", people |-> ppl, avatars |-> avs, called |-> TRUE]
    ELSE LET person == LookedUp(msg, answer) IN
         [exc |-> NoExc,
          people |-> DictSet(ppl, msg.personEmail, person),
          avatars |-> IF download_avatars /\ person.avatar # None
                      THEN DictSet(avs, person.avatar,
                                   File("", "", "", sanitize_name(msg.personEmail), FALSE))
                      ELSE avs,
          called |-> TRUE]

\* One iteration of the loop of lines 189-220.  answer is what sdk.people.get
\* answers if it is called, rs what requests.head answers for msg.files.
ArchiveMessage ==
    /\ pc = "loop"
    /\ index < Len(messages)
    /\ UNCHANGED <<opts, runVars, diskVars, tgz, result, tearDowns, badDownloads>>
    /\ LET msg == messages[index + 1] IN
       \E answer \in PersonAnswers :
         LET who == Resolve(people, avatars, msg, answer, opts.download_avatars) IN
         /\ who.called \/ answer = "avatar"
         /\ lookups' = IF who.called THEN [lookups EXCEPT ![msg.personEmail] = @ + 1]
                       ELSE lookups
         /\ IF who.exc # NoExc
            THEN /\ UNCHANGED <<probes, deletedUrls>>
                 /\ Raise(who.exc, "archive", TRUE)
            ELSE \E rs \in HeadAnswers(msg.files) :
                 LET p == ProbeFiles(msg.files, rs, 1, attachments, probes) IN
                 /\ probes' = p.probes
                 /\ deletedUrls' = deletedUrls \cup
                      {u \in DictKeys(p.attachments) : DictGet(p.attachments, u).deleted}
                 /\ IF p.exc # NoExc
                    THEN Raise(p.exc, "archive", TRUE)
                    ELSE /\ index' = index + 1
                         /\ processed_messages' = Append(processed_messages, msg)
                         /\ repeat_indeces' =
                              IF IsRepeat(index, msg, previous_person_email,
                                          previous_msg_datetime)
                              THEN Append(repeat_indeces, index) ELSE repeat_indeces
                         /\ previous_person_email' = msg.personEmail
                         /\ previous_msg_datetime' = <<msg.created>>
                         /\ people' = who.people
                         /\ avatars' = who.avatars
                         /\ attachments' = p.attachments
                         /\ pc' = "loop"
                         /\ UNCHANGED <<pool, exc, raisedIn, envFault>>

\* The generator self.messages raises while the loop draws the next message.
FetchFails ==
    /\ pc = "loop"
    /\ index < Len(messages)
    /\ Raise("ApiError", "archive", TRUE)
    /\ UNCHANGED <<opts, runVars, callVars, diskVars, tgz, result, tearDowns, ghostVars>>

\* Reversed(s): list(reversed(s)).
Reversed(s) == [i \in 1..Len(s) |-> s[Len(s) + 1 - i]]

\* The re-indexing with len(processed_messages) - 1 - i, the mirror of position i.
MirrorPositions(flags, n) == [k \in 1..Len(flags) |-> n - 1 - flags[k]]

\* Line 223: the flags re-indexed for the reversed list.
MirrorIndeces(flags, n) == [k \in 1..Len(flags) |-> n - flags[k]]

\* Lines 222-224.
Reorder ==
    /\ pc = "loop"
    /\ index = Len(messages)
    /\ pc' = "html"
    /\ repeat_indeces' = IF opts.reverse_order
                         THEN MirrorIndeces(repeat_indeces, Len(processed_messages))
                         ELSE repeat_indeces
    /\ processed_messages' = IF opts.reverse_order
                             THEN Reversed(processed_messages) ELSE processed_messages
    /\ UNCHANGED <<opts, runVars, index, people, attachments, avatars,
                   previous_person_email, previous_msg_datetime, lookups, probes,
                   diskVars, tgz, pool, exc, result, tearDowns, raisedIn, envFault,
                   ghostVars>>

\* ------------------------------------------------ _archive: transcripts
\* The step without its test of the format option: the file is always written.
WriteStepAlways(at, wanted, path, content, error, next) ==
    /\ pc = at
    /\ UNCHANGED <<opts, runVars, callVars, folderExists, folderDirs, tgz, result,
                   tearDowns, ghostVars>>
    /\ \E ok \in BOOLEAN :
         IF ok
         THEN /\ folderFiles' = WriteFile(folderFiles, path, content)
              /\ pc' = next
              /\ UNCHANGED <<localVars, pool, exc, raisedIn, envFault>>
         ELSE /\ UNCHANGED folderFiles
              /\ Raise(error, "archive", TRUE)

\* A step of _archive that writes one file when wanted is set, and may raise.
WriteStep(at, wanted, path, content, error, next) ==
    /\ pc = at
    /\ UNCHANGED <<opts, runVars, callVars, folderExists, folderDirs, tgz, result,
                   tearDowns, ghostVars>>
    /\ IF ~wanted
       THEN /\ pc' = next
            /\ UNCHANGED <<localVars, pool, folderFiles, exc, raisedIn, envFault>>
       ELSE \E ok \in BOOLEAN :
            IF ok
            THEN /\ folderFiles' = WriteFile(folderFiles, path, content)
                 /\ pc' = next
                 /\ UNCHANGED <<localVars, pool, exc, raisedIn, envFault>>
            ELSE /\ UNCHANGED folderFiles
                 /\ Raise(error, "archive", TRUE)

\* Lines 226-228 and _create_html_transcript.
HtmlTranscript ==
    WriteStep("html", opts.html_format, <<"", "Team_Sync_abc123.html">>, "html",
              "IOError", "text")

\* Lines 230-231 and _create_text_transcript.
TextTranscript ==
    WriteStep("text", opts.text_format, <<"", "Team_Sync_abc123.txt">>, "text",
              "IOError", "attachments")

\* Lines 239-240 and _create_json_transcript.
JsonTranscript ==
    WriteStep("json", opts.json_format, <<"", "Team_Sync_abc123.json">>, "json",
              "TypeError", "details")

\* The record dump without the isinstance test of line 246: the creator is left out.
DetailsDumpWithoutCreator(creator) == "space_details: creator=null"

\* Lines 245-248: json.dumps of the room and of the creator record, which is
\* room_creator._asdict() for the placeholder and room_creator.to_dict() otherwise.
DetailsDump(creator) == "space_details: creator=" \o creator.displayName

\* Lines 243-249.
SpaceDetails ==
    /\ pc = "details"
    /\ UNCHANGED <<opts, runVars, callVars, folderExists, folderDirs, tgz, result,
                   tearDowns, ghostVars>>
    /\ \E ok \in BOOLEAN :
         IF ok
         THEN /\ folderFiles' = WriteFile(folderFiles, <<"", "space_details.json">>,
                                          DetailsDump(room_creator))
              /\ pc' = "compress"
              /\ FrameLeft                           \* _archive returns
              /\ UNCHANGED <<exc, raisedIn, envFault>>
         ELSE /\ UNCHANGED folderFiles
              /\ Raise("IOError", "archive", TRUE)

\* ------------------------------------------------------- _download_files
\* Lines 353-356: one task per url of links, submitted in the dict's order.
Submitted(folder_name, links) ==
    [folder_name |-> folder_name,
     tasks |-> [i \in 1..Len(links) |->
                  [url |-> links[i][1], filename |-> links[i][2].filename,
                   state |-> "queued", status |-> 0, exc |-> NoExc, gets |-> 0]]]

Running == {i \in 1..Len(pool.tasks) : pool.tasks[i].state = "running"}
Finished == {i \in 1..Len(pool.tasks) : pool.tasks[i].state \in {"done", "failed"}}
Failed == {i \in 1..Len(pool.tasks) : pool.tasks[i].state = "failed"}

\* Lines 233-234 and 236-237: the call of _download_files, or its skip.
SubmitStep(at, wanted, folder_name, links, next) ==
    /\ pc = at
    /\ IF wanted
       THEN /\ pool' = Submitted(folder_name, links)
            /\ pc' = "downloading"
       ELSE /\ pc' = next
            /\ UNCHANGED pool
    /\ UNCHANGED <<opts, runVars, passVars, diskVars, tgz, exc, result, tearDowns,
                   raisedIn, envFault, ghostVars>>

SubmitAttachments ==
    SubmitStep("attachments", opts.download_attachments, "attachments", attachments,
               "avatars")

SubmitAvatars ==
    SubmitStep("avatars", opts.download_avatars, "avatars", avatars, "json")

\* What requests.get(url, stream=True) does: an HTTP status, or 0 for a network error.
GetAnswers == {200, 404, 0}

\* A pool that starts a thread per task, whatever max_workers is.
TaskGetUnbounded(i) ==
    /\ pc = "downloading"
    /\ pool.tasks[i].state = "queued"
    /\ \A j \in 1..(i - 1) : pool.tasks[j].state # "queued"
    /\ \E status \in GetAnswers :
         /\ pool' = [pool EXCEPT !.tasks[i] =
                        IF status = 0
                        THEN [@ EXCEPT !.state = "failed", !.exc = "ConnectionError",
                                       !.gets = @ + 1]
                        ELSE [@ EXCEPT !.state = "running", !.status = status,
                                       !.gets = @ + 1]]
         /\ badDownloads' = IF status = 200 THEN badDownloads
                            ELSE badDownloads \cup {pool.tasks[i].url}
         /\ envFault' = (envFault \/ status = 0)
    /\ UNCHANGED <<opts, pc, runVars, passVars, diskVars, tgz, exc, result, tearDowns,
                   raisedIn, deletedUrls>>

\* Line 371: a free worker takes the oldest queued task and sends the GET.
TaskGet(i) ==
    /\ pc = "downloading"
    /\ pool.tasks[i].state = "queued"
    /\ \A j \in 1..(i - 1) : pool.tasks[j].state # "queued"
    /\ Cardinality(Running) < opts.download_workers
    /\ \E status \in GetAnswers :
         /\ pool' = [pool EXCEPT !.tasks[i] =
                        IF status = 0
                        THEN [@ EXCEPT !.state = "failed", !.exc = "ConnectionError",
                                       !.gets = @ + 1]
                        ELSE [@ EXCEPT !.state = "running", !.status = status,
                                       !.gets = @ + 1]]
         /\ badDownloads' = IF status = 200 THEN badDownloads
                            ELSE badDownloads \cup {pool.tasks[i].url}
         /\ envFault' = (envFault \/ status = 0)
    /\ UNCHANGED <<opts, pc, runVars, passVars, diskVars, tgz, exc, result, tearDowns,
                   raisedIn, deletedUrls>>

\* A download task that records the size it wrote in the attachments map.
TaskWriteRecordsSize(i) ==
    /\ pc = "downloading"
    /\ pool.tasks[i].state = "running"
    /\ LET t == pool.tasks[i] IN
       IF t.filename = ""
       THEN /\ pool' = [pool EXCEPT !.tasks[i] =
                           [@ EXCEPT !.state = "failed", !.exc = "IsADirectoryError"]]
            /\ UNCHANGED <<folderFiles, attachments>>
       ELSE /\ pool' = [pool EXCEPT !.tasks[i] = [@ EXCEPT !.state = "done"]]
            /\ folderFiles' =
                 WriteFile(folderFiles, <<pool.folder_name, t.filename>>,
                           IF t.status = 200 THEN BodyOf(t.url) ELSE "error page")
            /\ attachments' =
                 IF DictHas(attachments, t.url)
                 THEN DictSet(attachments, t.url,
                              [DictGet(attachments, t.url) EXCEPT !.content_length = 0])
                 ELSE attachments
    /\ UNCHANGED <<opts, pc, runVars, index, people, avatars, processed_messages,
                   repeat_indeces, previous_person_email, previous_msg_datetime,
                   callVars, folderExists, folderDirs, tgz, exc, result, tearDowns,
                   raisedIn, envFault, ghostVars>>

\* Lines 372-373: open the target for writing and copy the response body into it.
\* The target of an empty filename is the subfolder itself.
TaskWrite(i) ==
    /\ pc = "downloading"
    /\ pool.tasks[i].state = "running"
    /\ LET t == pool.tasks[i] IN
       IF t.filename = ""
       THEN /\ pool' = [pool EXCEPT !.tasks[i] =
                           [@ EXCEPT !.state = "failed", !.exc = "IsADirectoryError"]]
            /\ UNCHANGED folderFiles
       ELSE /\ pool' = [pool EXCEPT !.tasks[i] = [@ EXCEPT !.state = "done"]]
            /\ folderFiles' =
                 WriteFile(folderFiles, <<pool.folder_name, t.filename>>,
                           IF t.status = 200 THEN BodyOf(t.url) ELSE "error page")
    /\ UNCHANGED <<opts, pc, runVars, passVars, folderExists, folderDirs, tgz, exc,
                   result, tearDowns, raisedIn, envFault, ghostVars>>

\* A join that never calls future.result(): failures of tasks are not seen.
JoinIgnoresFailures ==
    /\ pc = "downloading"
    /\ Finished = 1..Len(pool.tasks)
    /\ pc' = IF pool.folder_name = "attachments" THEN "avatars" ELSE "json"
    /\ UNCHANGED <<localVars, pool, exc, raisedIn, envFault>>
    /\ UNCHANGED <<opts, runVars, callVars, diskVars, tgz, result, tearDowns, ghostVars>>

\* A join that lets the first failure leave without the executor's wait.
JoinOnFirstFailure ==
    /\ pc = "downloading"
    /\ Failed # {} \/ Finished = 1..Len(pool.tasks)
    /\ IF Failed = {}
       THEN /\ pc' = IF pool.folder_name = "attachments" THEN "avatars" ELSE "json"
            /\ UNCHANGED <<localVars, pool, exc, raisedIn, envFault>>
       ELSE \E i \in Failed : Raise(pool.tasks[i].exc, "archive", FALSE)
    /\ UNCHANGED <<opts, runVars, callVars, diskVars, tgz, result, tearDowns, ghostVars>>

\* Lines 359-360 and the executor's exit: future.result() of every task, then
\* shutdown(wait=True); the exception of a failed task leaves _download_files.
JoinDownloads ==
    /\ pc = "downloading"
    /\ Finished = 1..Len(pool.tasks)
    /\ IF Failed = {}
       THEN /\ pc' = IF pool.folder_name = "attachments" THEN "avatars" ELSE "json"
            /\ UNCHANGED <<localVars, pool, exc, raisedIn, envFault>>
       ELSE \E i \in Failed : Raise(pool.tasks[i].exc, "archive", FALSE)
    /\ UNCHANGED <<opts, runVars, callVars, diskVars, tgz, result, tearDowns, ghostVars>>

\* ---------------------------------------------------------- archive_room
\* _compress_folder (line 156): tarfile.open creates the bundle, tar.add fills it.
CompressFolder ==
    /\ pc = "compress"
    /\ \E outcome \in {"ok", "open fails", "add fails"} :
         /\ tgz' = CASE outcome = "ok" -> "complete"
                     [] outcome = "add fails" -> "partial"
                     [] OTHER -> tgz
         /\ IF outcome = "ok"
            THEN /\ pc' = "finish"
                 /\ UNCHANGED <<localVars, pool, exc, raisedIn, envFault>>
            ELSE Raise("OSError", "compress", TRUE)
    /\ UNCHANGED <<opts, runVars, callVars, diskVars, result, tearDowns, ghostVars>>

\* The except clause without its call of _tear_down_folder.
ExceptHandlerKeepsFolder ==
    /\ pc = "except"
    /\ pc' = "raised"
    /\ UNCHANGED <<opts, runVars, passVars, diskVars, tgz, pool, exc, result, tearDowns,
                   raisedIn, envFault, ghostVars>>

\* Lines 157-159: except Exception: self._tear_down_folder(); raise
ExceptHandler ==
    /\ pc = "except"
    /\ TearDownFolder
    /\ pc' = "raised"
    /\ UNCHANGED <<opts, runVars, passVars, tgz, pool, exc, result, raisedIn, envFault,
                   ghostVars>>

\* Lines 161-164.
Finish ==
    /\ pc = "finish"
    /\ IF opts.delete_folder
       THEN TearDownFolder
       ELSE UNCHANGED <<diskVars, tearDowns>>
    /\ result' = archive_folder_name \o <<".tgz">>
    /\ pc' = "returned"
    /\ UNCHANGED <<opts, runVars, passVars, tgz, pool, exc, raisedIn, envFault,
                   ghostVars>>

\* ------------------------------------------------------- specifications
Times == {0}
RunFiles == {<<>>, <<"u1">>}
RunMessages == {Message(e, t, f) : e \in Emails, t \in Times, f \in RunFiles}
RunHistories == SeqsUpTo(RunMessages, MaxMsgs)

Gather == GatherFrom(RunHistories)

Archive ==
    \/ ArchiveMessage \/ FetchFails \/ Reorder
    \/ HtmlTranscript \/ TextTranscript
    \/ SubmitAttachments \/ SubmitAvatars
    \/ (\E i \in 1..Len(pool.tasks) : TaskGet(i))
    \/ (\E i \in 1..Len(pool.tasks) : TaskWrite(i))
    \/ JoinDownloads
    \/ JsonTranscript \/ SpaceDetails

Next ==
    \/ Gather \/ SetupFolder \/ Archive \/ CompressFolder \/ ExceptHandler \/ Finish

Spec == Init /\ [][Next]_vars

\* The same run with the default options, on rooms whose messages differ in their
\* creation times: within a minute of each other, a minute apart, a day apart.
GroupingTimes == {0, 59999, 60000, 61000, 86410000}
TimedMessages == {Message(e, t, <<>>) : e \in Emails, t \in GroupingTimes}
TimedHistories == SeqsUpTo(TimedMessages, MaxMsgs)

GatherTimed == GatherFrom(TimedHistories)

InitGrouping == InitWith(DefaultOptions, {"absent"})

NextGrouping ==
    \/ GatherTimed \/ SetupFolder \/ Archive \/ CompressFolder \/ ExceptHandler
    \/ Finish

SpecGrouping == InitGrouping /\ [][NextGrouping]_vars

\* The same run on rooms with several attachments, two of them uploads of one
\* file name, and with every worker count from 1 to MaxWorkers.
PoolOptions ==
    [overwrite_folder : {TRUE}, delete_folder : {FALSE}, reverse_order : {TRUE},
     download_attachments : {TRUE}, download_avatars : {TRUE},
     download_workers : 1..MaxWorkers,
     text_format : {TRUE}, html_format : {TRUE}, json_format : {TRUE}]

PoolFiles == {<<"u1">>, <<"u2", "u3">>, <<"u1", "u3">>}
PoolMessages == {Message("a@x.com", 0, f) : f \in PoolFiles}
PoolHistories == SeqsUpTo(PoolMessages, MaxMsgs)

GatherPool == GatherFrom(PoolHistories)

InitPool == InitWith(PoolOptions, {"absent"})

NextPool ==
    \/ GatherPool \/ SetupFolder \/ Archive \/ CompressFolder \/ ExceptHandler
    \/ Finish

SpecPool == InitPool /\ [][NextPool]_vars

\* The same run with every combination of the three transcript formats.
FormatOptions ==
    [overwrite_folder : {TRUE}, delete_folder : BOOLEAN, reverse_order : {TRUE},
     download_attachments : {TRUE}, download_avatars : {TRUE},
     download_workers : {MaxWorkers},
     text_format : BOOLEAN, html_format : BOOLEAN, json_format : BOOLEAN]

FormatMessages == {Message("a@x.com", 0, f) : f \in RunFiles}
FormatHistories == SeqsUpTo(FormatMessages, MaxMsgs)

GatherFormats == GatherFrom(FormatHistories)

InitFormats == InitWith(FormatOptions, {"absent"})

NextFormats ==
    \/ GatherFormats \/ SetupFolder \/ Archive \/ CompressFolder \/ ExceptHandler
    \/ Finish

SpecFormats == InitFormats /\ [][NextFormats]_vars

\* The caller's side: archive_room called where a bundle of an earlier run may
\* lie, and _tear_down_folder called on the archiver after archive_room has exited.
TearDownCall ==
    /\ pc \in {"returned", "raised"}
    /\ tearDowns < MaxTearDowns + 1
    /\ TearDownFolder
    /\ UNCHANGED <<opts, pc, runVars, passVars, tgz, pool, exc, result, raisedIn,
                   envFault, ghostVars>>

CallerHistories == SeqsUpTo(FormatMessages, MaxMsgs)

GatherCaller == GatherFrom(CallerHistories)

InitCaller == InitWith(AllOptions, {"absent", "old"})

NextCaller ==
    \/ GatherCaller \/ SetupFolder \/ Archive \/ CompressFolder \/ ExceptHandler
    \/ Finish \/ TearDownCall

SpecCaller == InitCaller /\ [][NextCaller]_vars

\* The steps of a call of _download_files: those of the worker threads and the
\* join of the calling thread.
Downloading ==
    \/ (\E i \in 1..Len(pool.tasks) : TaskGet(i))
    \/ (\E i \in 1..Len(pool.tasks) : TaskWrite(i))
    \/ JoinDownloads

\* The worker threads and the calling thread keep running: a step of the call
\* that stays possible is eventually taken.  The rooms are those whose messages
\* carry two attachments each.
FairMessages == {Message("a@x.com", 0, <<"u1", "u2">>)}
FairHistories == SeqsUpTo(FairMessages, MaxMsgs)

GatherFair == GatherFrom(FairHistories)

NextFair ==
    \/ GatherFair \/ SetupFolder \/ Archive \/ CompressFolder \/ ExceptHandler
    \/ Finish

SpecPoolFair == InitPool /\ [][NextFair]_vars /\ WF_<<pc, pool>>(Downloading)
\* ================================================================ claims
Abs(x) == IF x < 0 THEN -x ELSE x

\* ---------------------------------------------------------------------
\* C1: when the archive folder has been created and a later step (the pass,
\* a transcript, a download, the record dump, the compression) raises, the
\* except clause tears the folder down and only then lets the exception leave
\* archive_room, unchanged: the folder is gone when archive_room has exited.
C1_AllOrNothingCleanup ==
    /\ []((pc = "raised" /\ raisedIn \in {"archive", "compress"})
            => (~folderExists /\ folderDirs = {} /\ folderFiles = {}
                /\ tearDowns >= 1 /\ exc # NoExc))
    /\ []((pc = "except") => (folderExists /\ raisedIn \in {"archive", "compress"}))
    /\ [][pc = "except"
            => (pc' = "raised" /\ exc' = exc /\ ~folderExists'
                /\ tearDowns' = tearDowns + 1)]_vars

C1_Witness ==
    /\ pc = "raised" /\ raisedIn = "compress" /\ exc = "OSError"
    /\ ~folderExists /\ tearDowns = 1

\* ---------------------------------------------------------------------
\* C2: whenever _setup_folder raises after it has created the top-level
\* folder, the folder does not exist when archive_room exits.
C2_SetupFailureTornDown ==
    (pc = "raised" /\ raisedIn = "setup" /\ exc = "OSError") => ~folderExists

\* ---------------------------------------------------------------------
\* C3: when archive_room exits with a failure, no bundle written by this
\* run (complete or partial) is on disk.
C3_NoPartialBundle ==
    pc = "raised" => tgz \notin {"partial", "complete"}

\* ---------------------------------------------------------------------
\* C4: a not-found answer to the metadata request makes file_details return
\* deleted = true with empty fields, and a run that met such an attachment,
\* with every collaborator otherwise succeeding, does not fail: it returns
\* with the bundle written.
C4_DeletedAttachmentNeverAborts ==
    /\ \A u \in Urls :
         file_details(u, [status |-> 404, content_disposition |-> ""])
             = [exc |-> NoExc, file |-> File("", 0, "", "", TRUE)]
    /\ (deletedUrls # {} /\ ~envFault) => pc \notin {"except", "raised"}
    /\ (deletedUrls # {} /\ ~envFault /\ pc = "returned") => tgz = "complete"

\* ---------------------------------------------------------------------
\* C5: in the pass, a message is flagged as a continuation only if it has the
\* sender of the message before it and their creation times differ by less
\* than 60 seconds in absolute value.
C5_FlagsSound ==
    pc = "loop" =>
        \A k \in 1..Len(repeat_indeces) :
            LET i == repeat_indeces[k] IN
            /\ i > 0
            /\ processed_messages[i + 1].personEmail = processed_messages[i].personEmail
            /\ Abs(processed_messages[i + 1].created - processed_messages[i].created)
                   < ContinuationGap * MsPerSecond

\* ---------------------------------------------------------------------
\* C6: in the pass, every message that has the sender of the message before
\* it and was created less than 60 seconds before or after it is flagged.
C6_FlagsComplete ==
    pc = "loop" =>
        \A i \in 1..(Len(processed_messages) - 1) :
            (/\ processed_messages[i + 1].personEmail = processed_messages[i].personEmail
             /\ Abs(processed_messages[i + 1].created - processed_messages[i].created)
                    < ContinuationGap * MsPerSecond)
                => \E k \in 1..Len(repeat_indeces) : repeat_indeces[k] = i

C8_ProbedOncePerUrl ==
    \A u \in Urls : probes[u] <= 1

\* ---------------------------------------------------------------------
\* C9: the people dict holds one entry per email; sdk.people.get is called
\* once for every sender met so far and never again, also when the answer was
\* not-found and the entry is the placeholder; any other failure of the lookup
\* leaves the loop as the exception, with nothing added to the dict.
SendersSoFar == {messages[i].personEmail : i \in 1..index}

C9_LookupMemoized ==
    /\ \A i, j \in 1..Len(people) : people[i][1] = people[j][1] => i = j
    /\ \A e \in Emails : lookups[e] <= 1
    /\ pc = "loop" =>
         /\ \A e \in Emails : lookups[e] = (IF e \in SendersSoFar THEN 1 ELSE 0)
         /\ DictKeys(people) = SendersSoFar
         /\ index < Len(messages) =>
              LET msg == messages[index + 1]
                  r == Resolve(people, avatars, msg, "error", opts.download_avatars)
              IN IF msg.personEmail \in SendersSoFar
                 THEN ~r.called /\ r.exc = NoExc /\ r.people = people
                 ELSE r.called /\ r.exc = "ApiError" /\ r.people = people

C9_Witness ==
    /\ pc = "loop" /\ index = 2
    /\ messages[1].personEmail = messages[2].personEmail
    /\ lookups[messages[1].personEmail] = 1
    /\ DictGet(people, messages[1].personEmail).displayName = "Person Not Found"

\* ---------------------------------------------------------------------
\* C10: no run returns successfully when one of its downloads failed, by a
\* network error or by a non-success status of the server.
C10_FailedDownloadFailsRun ==
    pc = "returned" => badDownloads = {}
\* The links of the invocation the pool was created for.
LinksOf(folder_name) == IF folder_name = "attachments" THEN attachments ELSE avatars

\* _download_files has just returned without raising.
DownloadsReturned ==
    /\ pc \in {"avatars", "json"}
    /\ pool.folder_name = (IF pc = "avatars" THEN "attachments" ELSE "avatars")

\* ---------------------------------------------------------------------
\* C11: when _download_files returns without raising, every URL of the map
\* has a file of its resolved name in the target folder, and the file's
\* content is the body the GET of that URL answered, also when two URLs
\* resolve to one file name.
C11_EveryUrlHasItsBody ==
    DownloadsReturned =>
        \A i \in 1..Len(pool.tasks) :
            LET t == pool.tasks[i] IN
            <<<<pool.folder_name, t.filename>>,
              IF t.status = 200 THEN BodyOf(t.url) ELSE "error page">> \in folderFiles

\* ---------------------------------------------------------------------
\* C12: a not-found answer to the lookup of the room creator is recovered:
\* the creator becomes the placeholder named "Person Not Found" with no
\* avatar, the run goes on and, with every other call succeeding, returns;
\* the record dump written to space_details.json is the dump of the creator
\* record, placeholder included.  Any other failure of a remote call of
\* _gather_room_information leaves archive_room as that error.
CreatorIsPlaceholder ==
    /\ pc \notin {"start", "raised"}
    /\ room_creator = UserNotFound(RoomCreatorId, <<"unknown">>)

DetailsWritten ==
    <<<<"", "space_details.json">>,
      "space_details: creator=" \o room_creator.displayName>> \in folderFiles

C12_CreatorNotFoundRecovered ==
    /\ CreatorIsPlaceholder =>
           /\ room_creator.displayName = "Person Not Found"
           /\ room_creator.avatar = None
    /\ (CreatorIsPlaceholder /\ ~envFault /\ deletedUrls = {}) => pc # "except"
    /\ pc \in {"compress", "finish"} => DetailsWritten
    /\ (pc = "returned" /\ ~opts.delete_folder) => DetailsWritten
    /\ (pc = "raised" /\ raisedIn = "gather") => (exc = "ApiError" /\ result = NoResult)

C12_Witness ==
    /\ pc = "returned"
    /\ room_creator = UserNotFound(RoomCreatorId, <<"unknown">>)
    /\ tgz = "complete"
    /\ <<<<"", "space_details.json">>, "space_details: creator=Person Not Found">>
           \in folderFiles

\* ---------------------------------------------------------------------
\* C13: a folder of the archive's name that exists when _setup_folder runs
\* is, with overwrite_folder, deleted before the new folder is made, so no
\* file of the old folder is in the new one; without overwrite_folder,
\* _setup_folder raises FileExistsError, no step of the archive runs (no
\* lookup, no probe, no write, no bundle, no teardown), and the folder is
\* left on disk as it was.
C13_OverwriteOrConflict ==
    /\ [][(pc = "setup" /\ folderExists /\ opts.overwrite_folder)
            => (folderFiles' \cap OldFiles = {})]_vars
    /\ []((pc \notin {"start", "setup"} /\ exc # "FileExistsError"
             /\ raisedIn # "gather")
            => (folderFiles \cap OldFiles = {}))
    /\ [][(pc = "setup" /\ folderExists /\ ~opts.overwrite_folder)
            => (/\ pc' = "raised" /\ exc' = "FileExistsError"
                /\ UNCHANGED <<diskVars, tgz, tearDowns, passVars, pool>>)]_vars
    /\ []((pc = "raised" /\ exc = "FileExistsError")
            => (/\ ~opts.overwrite_folder
                /\ folderExists /\ folderFiles = OldFiles /\ folderDirs = {}
                /\ tgz = "absent" /\ tearDowns = 0 /\ index = 0
                /\ \A e \in Emails : lookups[e] = 0
                /\ \A u \in Urls : probes[u] = 0))

C13_Witness ==
    /\ pc = "raised" /\ exc = "FileExistsError" /\ raisedIn = "setup"
    /\ folderExists /\ folderFiles = OldFiles

\* ---------------------------------------------------------------------
\* C14: on a run in which no step fails, archive_room returns
\* <sanitized title>_<room id>.tgz; the bundle of that name is complete and
\* was written by _compress_folder after the last write into the folder
\* (transcripts, downloads, space_details.json); space_details.json is in the
\* folder; the .html, .txt and .json transcripts are in the folder exactly
\* when their format was requested; and the folder is still there after the
\* return exactly when delete_folder is false.
HasFile(name) == \E f \in folderFiles : f[1] = <<"", name>>

FolderAsRequested ==
    /\ folderExists
    /\ HasFile("space_details.json")
    /\ HasFile("Team_Sync_abc123.html") <=> opts.html_format
    /\ HasFile("Team_Sync_abc123.txt") <=> opts.text_format
    /\ HasFile("Team_Sync_abc123.json") <=> opts.json_format

C14_SuccessOutcome ==
    /\ [](pc \in {"compress", "finish"} => FolderAsRequested)
    /\ [][(tgz' # tgz) => (pc = "compress")]_vars
    /\ [][(pc \in {"compress", "finish"} /\ folderExists')
            => (folderFiles' = folderFiles)]_vars
    /\ [](pc = "finish" => tgz = "complete")
    /\ [](pc = "returned"
            => (/\ result = <<sanitize_name(RoomTitle), RoomId, ".tgz">>
                /\ tgz = "complete"
                /\ exc = NoExc
                /\ folderExists <=> ~opts.delete_folder
                /\ ~opts.delete_folder => FolderAsRequested))

C14_Witness ==
    /\ pc = "returned" /\ tgz = "complete" /\ ~opts.delete_folder
    /\ opts.html_format /\ ~opts.text_format /\ ~opts.json_format
    /\ HasFile("Team_Sync_abc123.html") /\ ~HasFile("Team_Sync_abc123.txt")
    /\ \E f \in folderFiles : f[1][1] = "attachments"

\* ---------------------------------------------------------------------
\* C15: a call of _tear_down_folder leaves the folder absent; when the folder
\* is absent already the call changes nothing on disk; and a call made after
\* archive_room has exited raises nothing and changes nothing but the folder.
\* So a second call in a row finds the folder absent and leaves the state of
\* the first.
C15_TearDownIdempotent ==
    /\ [][(tearDowns' = tearDowns + 1)
            => (/\ ~folderExists' /\ folderDirs' = {} /\ folderFiles' = {}
                /\ ~folderExists => UNCHANGED diskVars)]_vars
    /\ [][(pc \in {"returned", "raised"})
            => (/\ tearDowns' = tearDowns + 1
                /\ UNCHANGED <<pc, exc, result, tgz>>)]_vars
    /\ [](~folderExists => (folderDirs = {} /\ folderFiles = {}))

C15_Witness ==
    /\ pc = "returned" /\ ~opts.delete_folder
    /\ tearDowns = 2 /\ ~folderExists /\ exc = NoExc

\* ---------------------------------------------------------------------
\* C16: while _download_files runs with download_workers = W, at most W tasks
\* are running; the pool holds one task per URL of the map, all submitted
\* before any runs; and each task sends its GET once: never a second time,
\* and exactly once by the time _download_files returns.
C16_BoundedConcurrency ==
    /\ pc = "downloading" =>
          LET links == LinksOf(pool.folder_name) IN
          /\ Cardinality(Running) <= opts.download_workers
          /\ Len(pool.tasks) = Len(links)
          /\ \A i \in 1..Len(links) : pool.tasks[i].url = links[i][1]
          /\ \A i, j \in 1..Len(pool.tasks) :
                pool.tasks[i].url = pool.tasks[j].url => i = j
          /\ \A i \in 1..Len(pool.tasks) :
                pool.tasks[i].gets = (IF pool.tasks[i].state = "queued" THEN 0 ELSE 1)
    /\ DownloadsReturned =>
          /\ DictKeys(LinksOf(pool.folder_name))
                = {pool.tasks[i].url : i \in 1..Len(pool.tasks)}
          /\ \A i \in 1..Len(pool.tasks) : pool.tasks[i].gets = 1

C16_Witness ==
    /\ pc = "downloading"
    /\ Cardinality(Running) = opts.download_workers
    /\ \E i \in 1..Len(pool.tasks) : pool.tasks[i].state = "queued"
    /\ \E i \in 1..Len(pool.tasks) : pool.tasks[i].state = "done"

\* ---------------------------------------------------------------------
\* C17: with the workers scheduled fairly, a call of _download_files
\* eventually returns or raises, also when tasks fail; it is left only when
\* every submitted task has finished; so the folder is torn down and the
\* bundle is written only when no call of _download_files is in progress.
C17_TerminatesAndDrains ==
    /\ (pc = "downloading") ~> (pc # "downloading")
    /\ [][(pc = "downloading" /\ pc' # "downloading")
            => (Finished = 1..Len(pool.tasks) /\ Running = {})]_vars
    /\ [][(tearDowns' # tearDowns \/ tgz' # tgz)
            => (pc # "downloading" /\ Running = {})]_vars

C17_Witness ==
    /\ pc = "downloading"
    /\ Failed # {}
    /\ Running # {}

\* ---------------------------------------------------------------------
\* C18: the avatar invocation of _download_files starts only when the
\* attachment invocation has returned: its pool is created when every
\* attachment task has finished and none has failed; a file is written under
\* avatars/ only by the avatar invocation; and once an attachment task has
\* failed the run goes to the except clause, after which no pool exists.
C18_AttachmentsThenAvatars ==
    /\ [][(pool'.folder_name = "avatars" /\ pool.folder_name # "avatars")
            => (/\ pc = "avatars"
                /\ opts.download_attachments => pool.folder_name = "attachments"
                /\ Finished = 1..Len(pool.tasks)
                /\ Failed = {})]_vars
    /\ [][(\E f \in folderFiles' \ folderFiles : f[1][1] = "avatars")
            => (pc = "downloading" /\ pool.folder_name = "avatars")]_vars
    /\ [][(pc = "downloading" /\ pool.folder_name = "attachments" /\ Failed # {})
            => (pool'.folder_name = "attachments" \/ pc' = "except")]_vars
    /\ [](pc \in {"except", "raised"} => pool = NoPool)
    /\ [][(pc \in {"except", "raised"}) => (pool' = NoPool)]_vars

C18_Witness ==
    /\ pc = "downloading" /\ pool.folder_name = "avatars"
    /\ Running # {}
    /\ \E f \in folderFiles : f[1][1] = "attachments"

\* ---------------------------------------------------------------------
\* C19: the people, attachments and avatars maps are written by the pass over
\* the messages only: after the pass no step changes them until _archive is
\* left; every render and every download step is taken when the pass has
\* processed the last message; and while the pass runs no pool exists, so no
\* worker reads a map that is still being filled.
AfterPass == {"html", "text", "attachments", "downloading", "avatars", "json", "details"}

C19_MapsFrozenAfterPass ==
    /\ [][(pc \in AfterPass /\ pc' \in AfterPass)
            => UNCHANGED <<people, attachments, avatars>>]_vars
    /\ [][(people' # people \/ attachments' # attachments \/ avatars' # avatars)
            => (pc = "loop" \/ pc' \in {"except", "compress"})]_vars
    /\ [](pc \in AfterPass
            => (index = Len(messages) /\ Len(processed_messages) = Len(messages)))
    /\ [](pc = "loop" => pool = NoPool)
    /\ [](pool # NoPool => pc \in AfterPass)

C19_Witness ==
    /\ pc = "downloading" /\ pool.folder_name = "avatars"
    /\ Running # {}
    /\ Len(messages) = 2 /\ index = 2
    /\ Len(people) = 2 /\ Len(attachments) = 1 /\ Len(avatars) = 2

\* ---------------------------------------------------------------------
\* C20: when a remote call of _gather_room_information fails (the room, the
\* creator other than by not-found, the caller's identity, the message
\* list), archive_room is left with that error and without the except
\* clause: the folder, a folder of the same name left by an earlier run
\* included, and the bundle are as they were before the call.
C20_GatherFailureTouchesNothing ==
    /\ [][(pc = "start") => (pc' \in {"setup", "raised"})]_vars
    /\ [][(pc = "start" /\ pc' = "raised")
            => (/\ UNCHANGED <<diskVars, tgz, tearDowns>>
                /\ exc' = "ApiError" /\ raisedIn' = "gather")]_vars
    /\ [](pc = "except" => raisedIn # "gather")
    /\ []((pc = "raised" /\ raisedIn = "gather" /\ tearDowns = 0)
            => (/\ folderFiles = (IF folderExists THEN OldFiles ELSE {})
                /\ folderDirs = {}
                /\ tgz \in {"absent", "old"}))

C20_Witness ==
    /\ pc = "raised" /\ raisedIn = "gather" /\ exc = "ApiError"
    /\ tearDowns = 0
    /\ folderExists /\ folderFiles = OldFiles /\ tgz = "old"
====
